---- MODULE Spec2Model ----
(***************************************************************************)
(* Model of process_data_to_sql, the spreadsheet-to-SQL converter, in its  *)
(* two variants:                                                           *)
(*   "v0"  src/xls_to_sql.py      (fixed-position nutrient block)          *)
(*   "v1"  src/xls_to_sql_v1.py   (name-anchored block, forced-text load)  *)
(*                                                                         *)
(* Text is a sequence of one-character strings (a column header is a       *)
(* sequence of atoms: the characters ";" and " " on their own, and runs of *)
(* ordinary characters), so that cleaning, parsing, rendering and escaping *)
(* are computed as the code computes them.                                 *)
(*                                                                         *)
(* The cell alphabet holds unsigned decimal numbers only; signs, exponents,*)
(* "inf" and surrounding blanks, which pandas also parses, are outside the *)
(* inputs explored here.                                                   *)
(***************************************************************************)
EXTENDS Integers, Sequences, FiniteSets, TLC

VARIABLES
    variant,       \* which script runs: "v0" or "v1"
    inputExists,   \* whether input_file exists
    rawHeaders,    \* header row of the sheet, as stored
    rawRows,       \* data rows of the sheet: cell texts, as stored
    priorFile,     \* output_file as it was before the run
    pc,            \* position of the run inside process_data_to_sql
    all_columns,   \* df.columns.tolist()
    df,            \* the DataFrame: a sequence of rows of cell values
    column_types,  \* dict: column name -> SQL type
    warned,        \* the "Could not find nutrient start/end columns" warning
    df_sql,        \* df.astype(object).where(pd.notna(df), None)
    rowIdx,        \* number of rows iterrows() has delivered
    outFile,       \* content of output_file: NoFile or a sequence of statements
    errorShown     \* the "file ... was not found" message was printed

vars == << variant, inputExists, rawHeaders, rawRows, priorFile, pc,
           all_columns, df, column_types, warned, df_sql, rowIdx, outFile,
           errorShown >>

-----------------------------------------------------------------------------
(* Bounds of the explored inputs *)

MaxRows == 2

-----------------------------------------------------------------------------
(* Generic helpers on sequences *)

Range(s) == { s[i] : i \in 1..Len(s) }

Column(rows, j) == [ i \in 1..Len(rows) |-> rows[i][j] ]

\* Python's list.index(x), 1-based here; 0 stands for ValueError
IndexOf(s, x) ==
    IF \E i \in 1..Len(s) : s[i] = x
    THEN CHOOSE i \in 1..Len(s) : s[i] = x /\ \A k \in 1..(i-1) : s[k] # x
    ELSE 0

\* Python's s[a:b] for 0 <= a, 0 <= b (0-based, end exclusive, clipped)
Slice(s, a, b) ==
    LET hi == IF b < Len(s) THEN b ELSE Len(s)
    IN  IF a >= hi THEN << >> ELSE SubSeq(s, a + 1, hi)

-----------------------------------------------------------------------------
(* Cell values of the DataFrame *)

NaN        == [k |-> "nan",   s |-> << >>, n |-> 0]
None       == [k |-> "none",  s |-> << >>, n |-> 0]
StrVal(t)  == [k |-> "str",   s |-> t,     n |-> 0]
IntVal(n)  == [k |-> "int",   s |-> << >>, n |-> n]
\* a float: integer part n, fraction digits f (no trailing zeros)
FloatVal(n, f) == [k |-> "float", s |-> f, n |-> n]

IsMissing(v) == v.k \in {"nan", "none"}

Digits == <<"0","1","2","3","4","5","6","7","8","9">>
IsDigit(c) == c \in Range(Digits)
DigitVal(c) == IndexOf(Digits, c) - 1

RECURSIVE DigitsToNat(_)
DigitsToNat(t) ==
    IF t = << >> THEN 0
    ELSE 10 * DigitsToNat(SubSeq(t, 1, Len(t) - 1)) + DigitVal(t[Len(t)])

RECURSIVE NatToDigits(_)
NatToDigits(n) ==
    IF n < 10 THEN << Digits[n + 1] >>
    ELSE NatToDigits(n \div 10) \o << Digits[(n % 10) + 1] >>

RECURSIVE StripTrailingZeros(_)
StripTrailingZeros(t) ==
    IF t # << >> /\ t[Len(t)] = "0"
    THEN StripTrailingZeros(SubSeq(t, 1, Len(t) - 1))
    ELSE t

\* the text is an unsigned decimal: digits, or digits "." digits
DotAt(t) == IndexOf(t, ".")
IsIntText(t)   == t # << >> /\ \A i \in 1..Len(t) : IsDigit(t[i])
IsFloatText(t) ==
    /\ DotAt(t) > 1
    /\ DotAt(t) < Len(t)
    /\ IsIntText(SubSeq(t, 1, DotAt(t) - 1))
    /\ IsIntText(SubSeq(t, DotAt(t) + 1, Len(t)))
IsNumericText(t) == IsIntText(t) \/ IsFloatText(t)

\* the number a numeric text denotes
ParseNumber(t) ==
    IF IsIntText(t) THEN IntVal(DigitsToNat(t))
    ELSE FloatVal(DigitsToNat(SubSeq(t, 1, DotAt(t) - 1)),
               StripTrailingZeros(SubSeq(t, DotAt(t) + 1, Len(t))))

ToFloat(v) == IF v.k = "int" THEN FloatVal(v.n, << >>) ELSE v

\* Python's str(value) for the values a DataFrame cell can hold
StrOf(v) ==
    CASE v.k = "str"   -> v.s
      [] v.k = "int"   -> NatToDigits(v.n)
      [] v.k = "float" -> NatToDigits(v.n) \o <<".">> \o
                          (IF v.s = << >> THEN <<"0">> ELSE v.s)
      [] v.k = "nan"   -> <<"n","a","n">>
      [] OTHER         -> <<"N","o","n","e">>

-----------------------------------------------------------------------------
(* Names and texts *)

food_id       == << "food_id" >>
ndb_no        == << "ndb_no" >>
item_code     == << "item", " ", "code" >>
last_modified == << "last_modified" >>
energy        == << "energy" >>
serv_weight_7 == << "serv_weight_7" >>

T_empty == << >>
T_NULL  == << "N", "U", "L", "L" >>
T_0     == << "0" >>
T_0s    == << "0", ";" >>
T_lead  == << "0", "9", "0", "1", "2" >>
T_35s   == << "3", ".", "5", ";" >>
T_quote == << "a", "'", "\\", "b" >>
T_150   == << "1", "5", "0" >>
T_ab    == << "a", "b" >>

\* the texts a cell of the explored sheets can hold
CellTexts == { T_empty, T_NULL, T_0, T_0s, T_lead, T_35s, T_quote }

\* the header rows of the explored sheets
HeaderLists ==
    { << food_id, ndb_no, energy, <<"protein">>, serv_weight_7, last_modified >>,
      << <<"food_id", ";">>, <<"name">>, ndb_no >>,
      << <<" ", "food_id", " ">>, ndb_no, serv_weight_7 >>,
      << food_id, energy, <<"name">> >>,
      << item_code, ndb_no, energy >>,
      << food_id, ndb_no, <<"food_name">>, <<"c3">>, <<"c4">>, <<"c5">>,
         <<"c6">>, <<"c7">>, <<"c8">>, <<"c9">>, <<"c10">>, energy,
         serv_weight_7 >> }

\* the text of a cell outside the column whose cells vary
DefaultText(h) ==
    IF \E i \in 1..Len(h) : h[i] = "food_id" THEN T_lead
    ELSE IF h \in { ndb_no, energy, serv_weight_7, <<"protein">> } THEN T_150
    ELSE T_ab

\* the sheets under header row hl: up to MaxRows rows; the cells of one
\* column range over CellTexts, every other cell holds its column's default
Sheets(hl) ==
    { [ i \in 1..n |-> [ c \in 1..Len(hl) |->
                           IF c = j THEN texts[i] ELSE DefaultText(hl[c]) ] ] :
        <<n, j, texts>> \in
            UNION { UNION { { <<n, j, t>> : t \in [1..n -> CellTexts] } :
                            j \in 1..Len(hl) } : n \in 0..MaxRows } }

-----------------------------------------------------------------------------
(* Loader: pd.read_excel *)

\* the columns read_excel is told to keep as text (keys are looked up among
\* the header cells as stored in the sheet)
dtype_mapping(v) == IF v = "v1" THEN { food_id, ndb_no, item_code } ELSE { }

\* the cell texts read_excel turns into NaN on its own (its default
\* na_values), as far as CellTexts holds them
LoadNaTexts == { T_empty, T_NULL }

\* one column as read_excel delivers it: a forced-text column keeps every
\* text; any other column becomes numeric when each of its cells parses
LoadColumn(cells, forced) ==
    LET na(i)    == cells[i] \in LoadNaTexts
        numeric  == \A i \in 1..Len(cells) : na(i) \/ IsNumericText(cells[i])
        anyFloat == \E i \in 1..Len(cells) : na(i) \/ IsFloatText(cells[i])
    IN  [ i \in 1..Len(cells) |->
            IF na(i) THEN NaN
            ELSE IF forced \/ ~numeric THEN StrVal(cells[i])
            ELSE IF anyFloat THEN ToFloat(ParseNumber(cells[i]))
            ELSE ParseNumber(cells[i]) ]

ReadExcel(v, headers, rows) ==
    [ i \in 1..Len(rows) |->
        [ j \in 1..Len(headers) |->
            LoadColumn(Column(rows, j), headers[j] \in dtype_mapping(v))[i] ] ]

\* LoadOutcome with the return of the except branch left out
LoadOutcomeNoReturn(exists) == "loaded"

\* try/except FileNotFoundError: the run goes on only when the file is there
LoadOutcome(exists) == IF exists THEN "loaded" ELSE "aborted"

-----------------------------------------------------------------------------
(* Cleaner *)

\* str.replace(';', '')
RemoveSemicolons(t) == SelectSeq(t, LAMBDA c : c # ";")

\* str.strip()
RECURSIVE LStrip(_)
LStrip(t) == IF t # << >> /\ Head(t) = " " THEN LStrip(Tail(t)) ELSE t
RECURSIVE RStrip(_)
RStrip(t) ==
    IF t # << >> /\ t[Len(t)] = " " THEN RStrip(SubSeq(t, 1, Len(t) - 1)) ELSE t
Strip(t) == LStrip(RStrip(t))

\* df.columns.str.replace(';', '').str.strip()  (the name-anchored variant
\* only; the fixed-position variant keeps the headers as loaded)
CleanName(v, h) == IF v = "v1" THEN Strip(RemoveSemicolons(h)) ELSE h

\* the placeholders df.replace([...], np.nan) turns into NaN
Placeholders == { T_NULL, T_0, T_empty }

\* df.replace(';', '', regex=True) then df.replace(['NULL','0',''], np.nan),
\* on one cell: both act on text cells only
CleanCell(v) ==
    IF v.k # "str" THEN v
    ELSE IF RemoveSemicolons(v.s) \in Placeholders THEN NaN
    ELSE StrVal(RemoveSemicolons(v.s))

CleanFrame(d) == [ i \in 1..Len(d) |-> [ j \in 1..Len(d[i]) |-> CleanCell(d[i][j]) ] ]

-----------------------------------------------------------------------------
(* Type classifier *)

VARCHAR255 == << "VARCHAR(255)" >>
PKTYPE     == << "VARCHAR(50)", "PRIMARY KEY" >>
INTTYPE    == << "INT" >>
DOUBLETYPE == << "DOUBLE" >>
DATETIME   == << "DATETIME" >>

NumStart  == 11
NumMid    == 130
NumEnd    == 144

\* the nutrient block and whether its anchors were found
NumericCols(v, cols) ==
    IF v = "v0"
    THEN Slice(cols, NumStart, NumMid) \o Slice(cols, NumMid, NumEnd)
    ELSE IF IndexOf(cols, energy) = 0 \/ IndexOf(cols, serv_weight_7) = 0
         THEN << >>
         ELSE Slice(cols, IndexOf(cols, energy) - 1, IndexOf(cols, serv_weight_7))

AnchorMissing(v, cols) ==
    v = "v1" /\ (IndexOf(cols, energy) = 0 \/ IndexOf(cols, serv_weight_7) = 0)

\* the three assignments column_types[...] = ..., made whether or not the
\* table has such a column
Overrides == { food_id, ndb_no, last_modified }
OverrideType(c) ==
    IF c = food_id THEN PKTYPE ELSE IF c = ndb_no THEN INTTYPE ELSE DATETIME

Classify(v, cols) ==
    [ c \in Range(cols) \cup Overrides |->
        IF c \in Overrides THEN OverrideType(c)
        ELSE IF c \in Range(NumericCols(v, cols)) THEN DOUBLETYPE
        ELSE VARCHAR255 ]

\* the types whose columns go through pd.to_numeric
CoercedTypes(v) == IF v = "v1" THEN { INTTYPE, DOUBLETYPE } ELSE { DOUBLETYPE }

\* pd.to_numeric(column, errors='coerce')
ToNumericColumn(cells) ==
    LET conv(x) == IF x.k = "str"
                   THEN (IF IsNumericText(x.s) THEN ParseNumber(x.s) ELSE NaN)
                   ELSE x
        anyFloat == \E i \in 1..Len(cells) : conv(cells[i]).k \in {"nan", "float"}
    IN  [ i \in 1..Len(cells) |->
            IF anyFloat THEN ToFloat(conv(cells[i])) ELSE conv(cells[i]) ]

\* the columns the coercion loop visits; one that the table lacks raises
\* KeyError
CoercedNames(v, ct) == { c \in DOMAIN ct : ct[c] \in CoercedTypes(v) }

CoerceFrame(v, cols, ct, d) ==
    [ i \in 1..Len(d) |->
        [ j \in 1..Len(cols) |->
            IF cols[j] \in CoercedNames(v, ct)
            THEN ToNumericColumn(Column(d, j))[i]
            ELSE d[i][j] ] ]

-----------------------------------------------------------------------------
(* SQL emitter *)

NULLKW == << "N", "U", "L", "L" >>

\* column_types.get(col_name, 'VARCHAR(255)')
TypeOf(ct, col) == IF col \in DOMAIN ct THEN ct[col] ELSE VARCHAR255

\* 'PRIMARY KEY' in sql_type
HasPrimaryKey(sql_type) == \E i \in 1..Len(sql_type) : sql_type[i] = "PRIMARY KEY"

\* sql_type.replace(' PRIMARY KEY', '')
TypeOnly(sql_type) == SelectSeq(sql_type, LAMBDA w : w # "PRIMARY KEY")

\* one entry of col_defs: the words that follow the backticked name
ColDef(ct, col) ==
    LET sql_type == TypeOf(ct, col)
        null_def == IF HasPrimaryKey(sql_type) THEN "NOT NULL" ELSE "NULL"
    IN  [ name |-> col, words |-> TypeOnly(sql_type) \o << null_def >> ]

ColDefs(ct, cols) == [ j \in 1..Len(cols) |-> ColDef(ct, cols[j]) ]

Stmt(kind, cols, body) == [ kind |-> kind, cols |-> cols, body |-> body ]

\* SchemaStatements with the DROP TABLE line left out
SchemaStatementsNoDrop(ct, cols) ==
    << Stmt("CREATE", << >>, ColDefs(ct, cols)) >>

\* the statements written between open() and START TRANSACTION
SchemaStatements(ct, cols) ==
    << Stmt("DROP", << >>, << >>), Stmt("CREATE", << >>, ColDefs(ct, cols)) >>

StartStatement  == Stmt("START", << >>, << >>)
CommitStatement == Stmt("COMMIT", << >>, << >>)

\* df.astype(object).where(pd.notna(df), None)
ToSql(d) ==
    [ i \in 1..Len(d) |->
        [ j \in 1..Len(d[i]) |-> IF d[i][j].k = "nan" THEN None ELSE d[i][j] ] ]

\* IterRows over a frame whose rows with a missing cell were dropped
IterRowsSkipMissing(d) ==
    SelectSeq(d, LAMBDA r : \A j \in 1..Len(r) : r[j] # None)

\* the rows df_sql.iterrows() delivers
IterRows(d) == d

\* str.replace(old, new) for a one-character old
RECURSIVE ReplaceChar(_, _, _)
ReplaceChar(t, old, new) ==
    IF t = << >> THEN << >>
    ELSE (IF Head(t) = old THEN new ELSE << Head(t) >>)
         \o ReplaceChar(Tail(t), old, new)

\* Escape with the backslash replacement left out
EscapeQuotesOnly(t) == ReplaceChar(t, "'", << "'", "'" >>)

\* str(value).replace("'", "''").replace("\\", "\\\\")
Escape(t) == ReplaceChar(ReplaceChar(t, "'", << "'", "'" >>), "\\", << "\\", "\\" >>)

\* FormatValue with the None branch left out
FormatValueNoNullCheck(v, ct, col, value) ==
    IF col \in DOMAIN ct /\ ct[col] \in { INTTYPE, DOUBLETYPE }
    THEN StrOf(value)
    ELSE << "'" >> \o StrOf(value) \o << "'" >>

\* the literal of one cell
FormatValue(v, ct, col, value) ==
    IF value = None THEN NULLKW
    ELSE IF col \in DOMAIN ct /\ ct[col] \in { INTTYPE, DOUBLETYPE }
         THEN (IF v = "v1" THEN Strip(StrOf(value)) ELSE StrOf(value))
         ELSE << "'" >> \o Escape(StrOf(value)) \o << "'" >>

InsertStatement(v, ct, cols, row) ==
    Stmt("INSERT", cols,
         [ j \in 1..Len(cols) |-> FormatValue(v, ct, cols[j], row[j]) ])

-----------------------------------------------------------------------------
(* The output file *)

NoFile     == [ exists |-> FALSE, stmts |-> << >> ]
OldFile    == [ exists |-> TRUE,  stmts |-> << Stmt("OLD", << >>, << >>) >> ]
\* open(output_file, 'w')
Opened     == [ exists |-> TRUE,  stmts |-> << >> ]
Write(f, ss) == [ f EXCEPT !.stmts = @ \o ss ]

-----------------------------------------------------------------------------
(* The run *)

\* A run over an existing sheet starts with an output file left by an earlier
\* run, which open() truncates; a run without its sheet starts with or
\* without one.
Init ==
    /\ variant \in { "v0", "v1" }
    /\ inputExists \in BOOLEAN
    /\ rawHeaders \in (IF inputExists THEN HeaderLists ELSE { << >> })
    /\ rawRows \in (IF inputExists THEN Sheets(rawHeaders) ELSE { << >> })
    /\ priorFile \in (IF inputExists THEN { OldFile } ELSE { NoFile, OldFile })
    /\ pc = "start"
    /\ all_columns = << >>
    /\ df = << >>
    /\ column_types = << >>
    /\ warned = FALSE
    /\ df_sql = << >>
    /\ rowIdx = 0
    /\ outFile = priorFile
    /\ errorShown = FALSE

Inputs == << variant, inputExists, rawHeaders, rawRows, priorFile >>

\* pd.read_excel succeeds
Load ==
    /\ pc = "start"
    /\ LoadOutcome(inputExists) = "loaded"
    /\ df' = ReadExcel(variant, rawHeaders, rawRows)
    /\ pc' = "loaded"
    /\ UNCHANGED << Inputs, all_columns, column_types, warned, df_sql, rowIdx,
                    outFile, errorShown >>

\* pd.read_excel raises FileNotFoundError: message and return
LoadNotFound ==
    /\ pc = "start"
    /\ LoadOutcome(inputExists) = "aborted"
    /\ errorShown' = TRUE
    /\ pc' = "aborted"
    /\ UNCHANGED << Inputs, all_columns, df, column_types, warned, df_sql,
                    rowIdx, outFile >>

\* header and cell cleaning, then all_columns = df.columns.tolist()
Clean ==
    /\ pc = "loaded"
    /\ all_columns' = [ j \in 1..Len(rawHeaders) |-> CleanName(variant, rawHeaders[j]) ]
    /\ df' = CleanFrame(df)
    /\ pc' = "cleaned"
    /\ UNCHANGED << Inputs, column_types, warned, df_sql, rowIdx, outFile,
                    errorShown >>

\* the type mapping, the warning of the except branch, the overrides
ClassifyColumns ==
    /\ pc = "cleaned"
    /\ column_types' = Classify(variant, all_columns)
    /\ warned' = AnchorMissing(variant, all_columns)
    /\ pc' = "classified"
    /\ UNCHANGED << Inputs, all_columns, df, df_sql, rowIdx, outFile, errorShown >>

CoercePc == IF variant = "v1" THEN "classified" ELSE "schema"
SchemaPc == IF variant = "v1" THEN "coerced" ELSE "classified"
StartPc  == IF variant = "v1" THEN "schema" ELSE "coerced"

\* the coercion loop, every visited column being in the table
Coerce ==
    /\ pc = CoercePc
    /\ CoercedNames(variant, column_types) \subseteq Range(all_columns)
    /\ df' = CoerceFrame(variant, all_columns, column_types, df)
    /\ pc' = "coerced"
    /\ UNCHANGED << Inputs, all_columns, column_types, warned, df_sql, rowIdx,
                    outFile, errorShown >>

\* the coercion loop reaches a name the table lacks: df[col] raises KeyError,
\* which nothing catches
CoerceKeyError ==
    /\ pc = CoercePc
    /\ ~ (CoercedNames(variant, column_types) \subseteq Range(all_columns))
    /\ pc' = "crashed"
    /\ UNCHANGED << Inputs, all_columns, df, column_types, warned, df_sql,
                    rowIdx, outFile, errorShown >>

\* open(output_file, 'w'), DROP TABLE and CREATE TABLE
WriteSchema ==
    /\ pc = SchemaPc
    /\ outFile' = Write(Opened, SchemaStatements(column_types, all_columns))
    /\ pc' = "schema"
    /\ UNCHANGED << Inputs, all_columns, df, column_types, warned, df_sql,
                    rowIdx, errorShown >>

\* df_sql and START TRANSACTION
StartTransaction ==
    /\ pc = StartPc
    /\ df_sql' = ToSql(df)
    /\ outFile' = Write(outFile, << StartStatement >>)
    /\ rowIdx' = 0
    /\ pc' = "emitting"
    /\ UNCHANGED << Inputs, all_columns, df, column_types, warned, errorShown >>

\* one turn of the iterrows() loop
EmitRow ==
    /\ pc = "emitting"
    /\ rowIdx < Len(IterRows(df_sql))
    /\ outFile' = Write(outFile,
           << InsertStatement(variant, column_types, all_columns,
                              IterRows(df_sql)[rowIdx + 1]) >>)
    /\ rowIdx' = rowIdx + 1
    /\ UNCHANGED << Inputs, pc, all_columns, df, column_types, warned, df_sql,
                    errorShown >>

\* the loop is over: COMMIT
Commit ==
    /\ pc = "emitting"
    /\ rowIdx = Len(IterRows(df_sql))
    /\ outFile' = Write(outFile, << CommitStatement >>)
    /\ pc' = "done"
    /\ UNCHANGED << Inputs, all_columns, df, column_types, warned, df_sql,
                    rowIdx, errorShown >>

Next ==
    \/ Load
    \/ LoadNotFound
    \/ Clean
    \/ ClassifyColumns
    \/ Coerce
    \/ CoerceKeyError
    \/ WriteSchema
    \/ StartTransaction
    \/ EmitRow
    \/ Commit

Spec == Init /\ [][Next]_vars

-----------------------------------------------------------------------------
(* Properties *)

\* the INSERT statements of the output file, in file order
Inserts == SelectSeq(outFile.stmts, LAMBDA st : st.kind = "INSERT")

\* the run has opened the output file
WroteOutput ==
    \/ pc \in { "schema", "emitting", "done" }
    \/ variant = "v0" /\ pc = "coerced"

IsNumericSqlType(t) == t \in { INTTYPE, DOUBLETYPE }

\* C1: a run that reaches the emission stage writes one INSERT per delivered
\* row while the loop runs, and ends with exactly as many INSERT statements
\* as the sheet has data rows, whatever cells cleaning or coercion blanked.
C1_OneInsertPerRow ==
    /\ pc = "emitting" => Len(Inserts) = rowIdx /\ rowIdx <= Len(rawRows)
    /\ pc = "done" => Len(Inserts) = Len(rawRows)

\* a finished run of two rows, one of which holds a literal blanked by
\* numeric coercion and a literal blanked by nothing
C1_Witness ==
    /\ pc = "done"
    /\ Len(rawRows) = 2
    /\ Len(Inserts) = 2
    /\ \E j \in 1..Len(all_columns) :
          /\ IsNumericSqlType(TypeOf(column_types, all_columns[j]))
          /\ rawRows[1][j] = T_quote
          /\ Inserts[1].body[j] = NULLKW
          /\ Inserts[2].body[j] # NULLKW

\* C2: every literal of a column typed INT or DOUBLE, in either variant, is
\* the NULL keyword or a plain numeric token.
C2_NumericLiterals ==
    \A i \in 1..Len(Inserts) : \A j \in 1..Len(Inserts[i].cols) :
        IsNumericSqlType(TypeOf(column_types, Inserts[i].cols[j]))
            => \/ Inserts[i].body[j] = NULLKW
               \/ IsNumericText(Inserts[i].body[j])

\* the column definitions of the CREATE TABLE statement, if written
CreateDefs ==
    LET cs == SelectSeq(outFile.stmts, LAMBDA st : st.kind = "CREATE")
    IN  IF cs = << >> THEN << >> ELSE cs[1].body

\* C3: CREATE TABLE declares exactly one column with a primary-key
\* constraint: food_id, as VARCHAR with PRIMARY KEY and NOT NULL; every other
\* column is NULL-able and carries no primary-key constraint.
C3_PrimaryKeyDeclared ==
    WroteOutput =>
        /\ Cardinality({ j \in 1..Len(CreateDefs) :
                           "PRIMARY KEY" \in Range(CreateDefs[j].words) }) = 1
        /\ \A j \in 1..Len(CreateDefs) :
              IF CreateDefs[j].name = food_id
              THEN CreateDefs[j].words = << "VARCHAR(50)", "PRIMARY KEY", "NOT NULL" >>
              ELSE /\ "PRIMARY KEY" \notin Range(CreateDefs[j].words)
                   /\ CreateDefs[j].words[Len(CreateDefs[j].words)] = "NULL"

\* C4: a cell whose text, with semicolons removed, is empty, "NULL" or "0" is
\* written as the NULL keyword, in any column.
C4_PlaceholdersNull ==
    \A i \in 1..Len(Inserts) : \A j \in 1..Len(Inserts[i].cols) :
        RemoveSemicolons(rawRows[i][j]) \in { T_empty, T_NULL, T_0 }
            => Inserts[i].body[j] = NULLKW

\* a text with each single quote and each backslash written twice
RECURSIVE Doubled(_)
Doubled(t) ==
    IF t = << >> THEN << >>
    ELSE (IF Head(t) \in { "'", "\\" } THEN << Head(t), Head(t) >> ELSE << Head(t) >>)
         \o Doubled(Tail(t))

\* C5: in a column not typed INT or DOUBLE, every literal other than NULL is
\* the cell value between single quotes, with each single quote and each
\* backslash of the value doubled.
C5_QuotedAndEscaped ==
    \A i \in 1..Len(Inserts) : \A j \in 1..Len(Inserts[i].cols) :
        LET lit == Inserts[i].body[j]
        IN  (/\ ~ IsNumericSqlType(TypeOf(column_types, Inserts[i].cols[j]))
             /\ lit # NULLKW)
            => /\ Len(lit) >= 2
               /\ lit[1] = "'"
               /\ lit[Len(lit)] = "'"
               /\ SubSeq(lit, 2, Len(lit) - 1) = Doubled(StrOf(df_sql[i][j]))

\* a quoted literal of a value that holds a quote and a backslash
C5_Witness ==
    \E i \in 1..Len(Inserts) : \E j \in 1..Len(Inserts[i].cols) :
        /\ ~ IsNumericSqlType(TypeOf(column_types, Inserts[i].cols[j]))
        /\ df_sql[i][j] = StrVal(T_quote)
        /\ Inserts[i].body[j] = << "'", "a", "'", "'", "\\", "\\", "b", "'" >>

\* C6: the file of a run that writes output is DROP, CREATE (one definition
\* per column, in header order), START TRANSACTION, the INSERT statements in
\* row order (each naming all columns, one literal per column), and, once the
\* run is done, COMMIT as the last statement.
C6_StatementOrder ==
    WroteOutput =>
        LET ss == outFile.stmts
            n  == Len(ss)
        IN  /\ n >= 2
            /\ ss[1].kind = "DROP"
            /\ ss[2].kind = "CREATE"
            /\ Len(ss[2].body) = Len(rawHeaders)
            /\ \A j \in 1..Len(ss[2].body) :
                  ss[2].body[j].name = CleanName(variant, rawHeaders[j])
            /\ n >= 3 => ss[3].kind = "START"
            /\ \A p \in 4..n :
                  IF pc = "done" /\ p = n
                  THEN ss[p].kind = "COMMIT"
                  ELSE /\ ss[p].kind = "INSERT"
                       /\ p - 3 <= Len(rawRows)
                       /\ Len(ss[p].cols) = Len(rawHeaders)
                       /\ \A j \in 1..Len(ss[p].cols) :
                             ss[p].cols[j] = ss[2].body[j].name
                       /\ Len(ss[p].body) = Len(ss[p].cols)
                       /\ ss[p].body =
                             InsertStatement(variant, column_types, all_columns,
                                             df_sql[p - 3]).body
            /\ pc \in { "emitting", "done" } => n >= 3
            /\ pc = "done" => n = Len(rawRows) + 4 /\ ss[n].kind = "COMMIT"

\* a finished script with two INSERT statements between START and COMMIT
C6_Witness ==
    /\ pc = "done"
    /\ Len(outFile.stmts) = 6
    /\ outFile.stmts[4].kind = "INSERT"
    /\ outFile.stmts[5].kind = "INSERT"
    /\ outFile.stmts[4].body # outFile.stmts[5].body
    /\ outFile.stmts[6].kind = "COMMIT"

\* the whole script of a finished run: DROP through COMMIT, one INSERT per row
FullScript ==
    /\ Len(outFile.stmts) = Len(rawRows) + 4
    /\ outFile.stmts[1].kind = "DROP"
    /\ outFile.stmts[Len(outFile.stmts)].kind = "COMMIT"
    /\ Len(Inserts) = Len(rawRows)

\* C7: in the name-anchored variant, a run whose anchor column is missing
\* warns, types every column without a name override as VARCHAR, and does
\* not abort: it ends with the full script, whatever the header row, also one
\* without food_id, ndb_no or last_modified.
C7_AnchorMissingCompletes ==
    (/\ variant = "v1"
     /\ pc \in { "classified", "coerced", "schema", "emitting", "done", "crashed" }
     /\ AnchorMissing(variant, all_columns))
    => /\ warned
       /\ \A c \in Range(all_columns) \ Overrides : column_types[c] = VARCHAR255
       /\ pc # "crashed"
       /\ pc = "done" => FullScript

C9_MissingInputWritesNothing ==
    ~ inputExists =>
        /\ outFile = priorFile
        /\ pc \in { "start", "aborted" }
        /\ pc = "aborted" => errorShown
        /\ all_columns = << >> /\ df = << >> /\ column_types = << >>
        /\ df_sql = << >> /\ ~ warned

\* an aborted run that left an existing output file in place
C9_Witness ==
    /\ ~ inputExists
    /\ pc = "aborted"
    /\ errorShown
    /\ priorFile = OldFile
    /\ outFile = OldFile

\* C10: in the forced-text variant, a food identifier "09012" in the column
\* whose cleaned name is food_id is emitted as '09012', however the header
\* was spelled in the sheet.
C10_LeadingZeroKept ==
    variant = "v1" =>
        \A i \in 1..Len(Inserts) : \A j \in 1..Len(Inserts[i].cols) :
            (Inserts[i].cols[j] = food_id /\ rawRows[i][j] = T_lead)
                => Inserts[i].body[j] = << "'", "0", "9", "0", "1", "2", "'" >>

====
